---- MODULE Spec2Model ----
(***************************************************************************)
(* Model of the structured-logging migration scripts of agent-v2:          *)
(*   add_structured_logging.py, fix_logger_templates.py and                *)
(*   fix_logger_variables.py.                                              *)
(*                                                                         *)
(* A document is a sequence of tokens.  A token stands for a literal run   *)
(* of characters of the file; the tokens are cut so that every literal and *)
(* every character class of the scripts' regular expressions begins and    *)
(* ends on a token boundary.  A regular expression is modelled by a        *)
(* matcher that gives, for a start position, the end of the match Python's *)
(* backtracking engine chooses and the replacement text; re.sub is the     *)
(* leftmost, non-overlapping scan over those matches.                      *)
(***************************************************************************)
EXTENDS Naturals, Sequences, FiniteSets

VARIABLES
  files,          \* agent -> text of deploy/<agent>/src/agent.ts (<<>> when absent)
  present,        \* the agents whose agent.ts exists
  script,         \* the script whose main() is running, or "idle"
  idx,            \* position of main()'s loop in AGENTS
  pass,           \* number of the current full pass over the three scripts
  success_count,  \* main()'s success_count (add_structured_logging.py)
  step,           \* what the last process_agent_file call did
  visited,        \* the agents the running main() has called process_agent_file on
  summary,        \* the final summary line of the last finished main(), or NoSummary
  after1,         \* the files as the first full pass left them
  existed,        \* the agents whose agent.ts existed when the run began
  text,           \* the content buffer a pass function is applied to
  before,         \* the buffer before the last application
  op,             \* the pass function applied last
  n,              \* the count that application reported
  agent_prefix,   \* the prefix tag the rewriter is parameterised by
  normalized      \* call sites (by ordinal) the Template Normalizer has rewritten

vars == <<files, present, script, idx, pass, success_count, step, visited,
          summary, after1, existed, text, before, op, n, agent_prefix, normalized>>

orchVars == <<files, present, script, idx, pass, success_count, step, visited,
              summary, after1, existed>>
textVars == <<text, before, op, n, agent_prefix, normalized>>

-----------------------------------------------------------------------------
(* Program constants *)

AGENTS == <<"concierge", "storefront", "marketing", "research", "booking">>

agent_prefixes ==
  [a \in {AGENTS[k] : k \in 1..Len(AGENTS)} |->
     CASE a = "concierge"  -> "Concierge"
       [] a = "storefront" -> "StorefrontAgent"
       [] a = "marketing"  -> "MarketingAgent"
       [] a = "research"   -> "ResearchAgent"
       [] a = "booking"    -> "BookingAgent"]

AgentSet == {AGENTS[k] : k \in 1..Len(AGENTS)}

\* The marker add_logger looks for, and the block it inserts.
SENTINEL == "// STRUCTURED LOGGER"
LOGGER_BODY == "const logger = {...}"
LOGGER_CODE == <<"\n", SENTINEL, LOGGER_BODY, ";", "\n">>

\* "\n// ====...\n// ENVIRONMENT CONFIGURATION", the second group of the anchor.
ENV_ANCHOR == "\n// ENVIRONMENT CONFIGURATION"

ERROR_EXPR == "error instanceof Error ? error.message : String(error)"
QUESTION_EXPR == "params.question.substring(0, 50)"

-----------------------------------------------------------------------------
(* Character classes, as the sets of tokens that hold the character *)

WS == {" ", "\n"}
\* The backtick character (the delimiter of a template literal).
BT == "<backtick>"
BacktickToks == {BT}
QuoteToks == {"'", LOGGER_BODY}
CommaToks == {",", LOGGER_BODY, QUESTION_EXPR}
RParenToks == {")", LOGGER_BODY, QUESTION_EXPR, ERROR_EXPR}

ConsoleHeads == {"console.log(", "console.error(", "console.warn("}
LoggerHeads == {"logger.info(", "logger.warn(", "logger.error("}

\* console.<x>( -> logger.<y>(
LoggerOf(head) ==
  CASE head = "console.log("   -> "logger.info("
    [] head = "console.error(" -> "logger.error("
    [] head = "console.warn("  -> "logger.warn("

-----------------------------------------------------------------------------
(* Scanning *)

\* The one element of a singleton set.  {e : x \in {v}} binds x to the
\* value of v, which is then computed once however often e mentions x.
Only(S) == CHOOSE x \in S : TRUE

Min(S) == CHOOSE k \in S : \A j \in S : k <= j

\* The first position >= i that holds a token of stop, or Len(s)+1.
Until(s, i, stop) ==
  Only({IF P = {} THEN Len(s) + 1 ELSE Min(P) :
          P \in {{j \in i..Len(s) : s[j] \in stop}}})

\* The first position >= i that holds no token of cls, or Len(s)+1.
While(s, i, cls) ==
  Only({IF P = {} THEN Len(s) + 1 ELSE Min(P) :
          P \in {{j \in i..Len(s) : s[j] \notin cls}}})

\* The literal lit stands at position i of s.
Lit(s, i, lit) ==
  /\ i >= 1
  /\ i + Len(lit) - 1 <= Len(s)
  /\ \A k \in 1..Len(lit) : s[i + k - 1] = lit[k]

Has(s, t) == \E k \in 1..Len(s) : s[k] = t

\* str.strip(): leading and trailing whitespace removed.
Strip(s) ==
  LET a == While(s, 1, WS)
      Last == {k \in 1..Len(s) : s[k] \notin WS}
      b == IF Last = {} THEN 0 ELSE CHOOSE k \in Last : \A j \in Last : j <= k
  IN  IF a > b THEN <<>> ELSE SubSeq(s, a, b)

\* str.rstrip(':'): trailing colons removed.
RECURSIVE RStripColon(_)
RStripColon(s) ==
  IF s # <<>> /\ s[Len(s)] = ":" THEN RStripColon(SubSeq(s, 1, Len(s) - 1)) ELSE s

NoMatch == [end |-> 0]

-----------------------------------------------------------------------------
(* add_structured_logging.py: the Logger-Declaration Injector *)

\* re.sub(pattern, replacement, content, count=1, flags=re.DOTALL) with
\*   pattern = (import.*?;\s*\n)(\n// ====\n// ENVIRONMENT CONFIGURATION):
\* the position of the anchor token the block is inserted before, or 0.
\* The match starts at the first "import"; the lazy .*? stops at the first ";"
\* that is followed by whitespace ending in a newline and then the anchor.
AnchorAfter(s, q) ==
  LET e == While(s, q + 1, WS)
  IN  IF /\ s[q] = ";"
         /\ e <= Len(s)
         /\ s[e] = ENV_ANCHOR
         /\ e - 1 > q
         /\ s[e - 1] = "\n"
      THEN e ELSE 0

AnchorPos(s) ==
  LET i0 == Until(s, 1, {"import"})
      Qs == {q \in (i0 + 1)..Len(s) : AnchorAfter(s, q) > 0}
  IN  IF i0 > Len(s) \/ Qs = {} THEN 0
      ELSE AnchorAfter(s, CHOOSE q \in Qs : \A r \in Qs : q <= r)

\* (a variant without the early return on the sentinel)
add_logger_unguarded(content) ==
  LET e == AnchorPos(content)
  IN  IF e = 0 THEN content
      ELSE SubSeq(content, 1, e - 1) \o LOGGER_CODE
             \o SubSeq(content, e, Len(content))

add_logger(content) ==
  LET e == AnchorPos(content)
      result == IF e = 0 THEN content
                ELSE SubSeq(content, 1, e - 1) \o LOGGER_CODE
                       \o SubSeq(content, e, Len(content))
  IN  IF Has(content, SENTINEL) THEN content
      ELSE IF result = content THEN content
      ELSE result

-----------------------------------------------------------------------------
(* add_structured_logging.py: the Call-Site Rewriter *)

\* The opening of a legacy call: console.<x>( BACKTICK [<agent_prefix>] SPACE
LegacyOpen(head, prefix) == <<head, BT, "[", prefix, "]", " ">>

StructuredOpen(head, data, prefix) ==
  <<LoggerOf(head)>> \o data \o <<",", " ", "'", "[", prefix, "]", " ">>

StructuredClose == <<"'", ")", ";">>

\* pattern1 of each replace_console_ function (message only), with repl1 / repl:
\* the message is one or more non-backtick characters, then BACKTICK ) ;
MatchMessageOnly(s, i, head, prefix) ==
  LET a == i + Len(LegacyOpen(head, prefix))
      b == Until(s, a, BacktickToks)
  IN  IF /\ Lit(s, i, LegacyOpen(head, prefix))
         /\ b > a
         /\ Lit(s, b, <<BT, ")", ";">>)
      THEN [end  |-> b + 3,
            repl |-> StructuredOpen(head, <<"{}">>, prefix)
                       \o SubSeq(s, a, b - 1) \o StructuredClose]
      ELSE NoMatch

\* (a variant whose group 2 also stops at a comma: one trailing expression)
DataStopAtComma == RParenToks \cup CommaToks

\* Group 2 of pattern2 of replace_console_log stops at the first of these.
DataStop == RParenToks

\* pattern2 of replace_console_log (message plus data), with repl2:
\* message, BACKTICK, comma, whitespace, one or more characters other than
\* a closing parenthesis, then ) ;
MatchMessageData(s, i, head, prefix) ==
  LET a == i + Len(LegacyOpen(head, prefix))
      b == Until(s, a, BacktickToks)
      c == b + 2                        \* first token after the comma
      d == Until(s, c, DataStop)        \* the ")" that ends group 2
      data_expr == Strip(SubSeq(s, c, d - 1))
      msg == SubSeq(s, a, b - 1)
  IN  IF /\ Lit(s, i, LegacyOpen(head, prefix))
         /\ b > a
         /\ Lit(s, b, <<BT, ",">>)
         /\ d > c
         /\ Lit(s, d, <<")", ";">>)
      THEN [end  |-> d + 2,
            repl |-> IF Has(data_expr, "JSON.stringify")
                     THEN StructuredOpen(head, <<"{ ", "data", ": ">> \o data_expr
                                                 \o <<" }">>, prefix)
                            \o msg \o StructuredClose
                     ELSE StructuredOpen(head, <<"{ ">> \o data_expr \o <<" }">>,
                                         prefix)
                            \o msg \o StructuredClose]
      ELSE NoMatch

\* pattern2 of replace_console_error (message plus error), with repl2:
\* message, BACKTICK, comma, whitespace, the identifier error, then ) ;
MatchMessageError(s, i, head, prefix) ==
  LET a == i + Len(LegacyOpen(head, prefix))
      b == Until(s, a, BacktickToks)
      c == While(s, b + 2, WS)
      msg == RStripColon(SubSeq(s, a, b - 1))
  IN  IF /\ Lit(s, i, LegacyOpen(head, prefix))
         /\ b > a
         /\ Lit(s, b, <<BT, ",">>)
         /\ Lit(s, c, <<"error", ")", ";">>)
      THEN [end  |-> c + 3,
            repl |-> StructuredOpen(head, <<"{ ", "error", ": ", ERROR_EXPR, " }">>,
                                    prefix)
                       \o msg \o StructuredClose]
      ELSE NoMatch

-----------------------------------------------------------------------------
(* fix_logger_templates.py: the Template Normalizer *)

\* (logger\.(info|warn|error)\([^,]+,\s*)'([^']*\$\{[^']*)'(\);)  with replacer:
\* the first argument runs to the first comma, the message from the quote
\* after it to the next quote, and must hold an interpolation marker.
MatchTemplate(s, i) ==
  LET c == Until(s, i + 1, CommaToks)
      q == While(s, c + 1, WS)
      r == Until(s, q + 1, QuoteToks)
  IN  IF /\ i <= Len(s)
         /\ s[i] \in LoggerHeads
         /\ c > i + 1
         /\ Lit(s, c, <<",">>)
         /\ Lit(s, q, <<"'">>)
         /\ Lit(s, r, <<"'", ")", ";">>)
         /\ \E k \in (q + 1)..(r - 1) : s[k] = "${"
      THEN [end  |-> r + 3,
            repl |-> SubSeq(s, i, q - 1) \o <<BT>> \o SubSeq(s, q + 1, r - 1)
                       \o <<BT, ")", ";">>]
      ELSE NoMatch

-----------------------------------------------------------------------------
(* fix_logger_variables.py: the Variable Extractor *)

\* The identifiers \w*[sS]essionId stands for in the target files.
SessionIdVars == {"sessionId", "specialistSessionId", "cachedSessionId"}

InfoOnly == {"logger.info("}
ErrorOnly == {"logger.error("}

\* A field of the data object: name alone (shorthand) when expr = "",
\* name: <captured identifier> when expr = "$", else name: expr.
Field(name, expr) == [name |-> name, expr |-> expr]

Single(heads, var, name, expr) ==
  [heads |-> heads, refs |-> <<{var}>>, fields |-> <<Field(name, expr)>>,
   tags |-> <<name>>]

Params(name) ==
  Single(InfoOnly, "params." \o name, name, "params." \o name)

Pair(name1, name2) ==
  [heads  |-> InfoOnly,
   refs   |-> <<{"params." \o name1}, {"params." \o name2}>>,
   fields |-> <<Field(name1, "params." \o name1), Field(name2, "params." \o name2)>>,
   tags   |-> <<name1, name2>>]

VARIABLE_PATTERNS == <<
  Single(LoggerHeads, "tenantId", "tenantId", ""),
  Single(LoggerHeads, "agentName", "agentName", ""),
  [heads |-> LoggerHeads, refs |-> <<SessionIdVars>>,
   fields |-> <<Field("sessionId", "$")>>, tags |-> <<"sessionId">>],
  Single(ErrorOnly, "response.status", "status", "response.status"),
  Single(ErrorOnly, "errorText", "errorText", ""),
  [heads |-> LoggerHeads, refs |-> <<{"agentName"}, SessionIdVars>>,
   fields |-> <<Field("agentName", ""), Field("sessionId", "$")>>,
   tags |-> <<"agentName", "sessionId">>],
  Params("task"),
  Params("pageName"),
  Params("enabled"),
  Params("toPosition"),
  Pair("sectionType", "pageName"),
  Params("sectionId"),
  Params("context"),
  Params("serviceName"),
  Params("copyType"),
  Pair("industry", "location"),
  Params("url"),
  Single(InfoOnly, "params.competitors.length", "competitorCount",
         "params.competitors.length"),
  Params("serviceId"),
  Pair("startDate", "endDate"),
  Single(InfoOnly, QUESTION_EXPR, "question", QUESTION_EXPR),
  Params("scheduledAt")
>>

\* An interpolation reference ${v}, v one of vs, stands at k and ends before r.
RefAt(s, k, vs, r) ==
  /\ k + 2 < r
  /\ s[k] = "${"
  /\ s[k + 1] \in vs
  /\ s[k + 2] = "}"

Max(S) == CHOOSE k \in S : \A j \in S : j <= k

\* The tokens of one field of the data object the replacer writes.
FieldToks(f, captured) ==
  IF f.expr = "" THEN <<f.name>>
  ELSE IF f.expr = "$" THEN <<f.name, ": ", captured>>
  ELSE <<f.name, ": ", f.expr>>

\* (a variant that writes the name without the brackets)
TagToksBare(name) == <<" ", name>>

\* " [name]", as every replacer writes the tag.
TagToks(name) == <<" ", "[", name, "]">>

\* The lambda of an entry of VARIABLE_PATTERNS: group 1 (up to the quote at
\* q), the data object, the message up to the quote at r with the reference
\* at p1 (and at p2, for a rule with two) replaced by its tag.
VariableRepl(s, i, rule, q, r, p1, p2) ==
  LET pre == SubSeq(s, i, q - 1) \o <<"{ ">>
      mid == <<" }", ",", " ", "'">> \o SubSeq(s, q + 1, p1 - 1)
               \o TagToks(rule.tags[1])
  IN  IF Len(rule.refs) = 2
      THEN pre \o FieldToks(rule.fields[1], s[p1 + 1]) \o <<",", " ">>
             \o FieldToks(rule.fields[2], s[p2 + 1]) \o mid
             \o SubSeq(s, p1 + 3, p2 - 1) \o TagToks(rule.tags[2])
             \o SubSeq(s, p2 + 3, r - 1) \o StructuredClose
      ELSE pre \o FieldToks(rule.fields[1], s[p1 + 1]) \o mid
             \o SubSeq(s, p1 + 3, r - 1) \o StructuredClose

\* The pattern of an entry between the quotes at q and r:
\*   '([^']*)\$\{<ref>\}([^']*)'(\);)
\*   '([^']*)\$\{<ref1>\}([^']*)\$\{<ref2>\}([^']*)'(\);)
\* Each ([^']*) is greedy, so the last reference that lets the rest match is taken.
VariableQuoted(s, i, rule, q, r) ==
  LET two == Len(rule.refs) = 2
      P2(k) == {j \in (k + 3)..(r - 1) : RefAt(s, j, rule.refs[2], r)}
      P1 == {k \in (q + 1)..(r - 1) :
               /\ RefAt(s, k, rule.refs[1], r)
               /\ two => P2(k) # {}}
  IN  IF /\ Lit(s, q, <<"'">>)
         /\ Lit(s, r, <<"'", ")", ";">>)
         /\ P1 # {}
      THEN Only({[end  |-> r + 3,
                  repl |-> VariableRepl(s, i, rule, q, r, p.p1, p.p2)] :
                   p \in {Only({[p1 |-> p1, p2 |-> IF two THEN Max(P2(p1)) ELSE 0] :
                                  p1 \in {Max(P1)}})}})
      ELSE NoMatch

\* One entry of VARIABLE_PATTERNS at position i: pattern and lambda.
\*   (logger\.<sev>\(\{\},\s*)'...'(\);)
MatchVariable(s, i, rule) ==
  IF /\ i <= Len(s)
     /\ s[i] \in rule.heads
     /\ Lit(s, i + 1, <<"{}", ",">>)
  THEN Only({Only({VariableQuoted(s, i, rule, q, r) :
                     r \in {Until(s, q + 1, QuoteToks)}}) :
               q \in {While(s, i + 3, WS)}})
  ELSE NoMatch

-----------------------------------------------------------------------------
(* re.sub and re.finditer *)

MatchAt(pat, s, i) ==
  CASE pat.kind = "message_only"  -> MatchMessageOnly(s, i, pat.head, pat.prefix)
    [] pat.kind = "message_data"  -> MatchMessageData(s, i, pat.head, pat.prefix)
    [] pat.kind = "message_error" -> MatchMessageError(s, i, pat.head, pat.prefix)
    [] pat.kind = "template"      -> MatchTemplate(s, i)
    [] pat.kind = "variable"      -> MatchVariable(s, i, pat.rule)

\* The tokens a match of pat can start with (the pattern's leading literal).
PatHeads(pat) ==
  CASE pat.kind = "template" -> LoggerHeads
    [] pat.kind = "variable" -> pat.rule.heads
    [] OTHER                 -> {pat.head}

\* The positions >= i, in order, that hold a token of hd.
HeadSeq(s, i, hd) ==
  Only({[k \in 1..Cardinality(P) |->
           CHOOSE j \in P : Cardinality({x \in P : x < j}) = k - 1] :
          P \in {{j \in i..Len(s) : s[j] \in hd}}})

\* pattern.sub(repl, content) with repl counting its calls: the leftmost
\* non-overlapping matches replaced, as [content, count, at].  A match starts
\* at a token of PatHeads(pat), so the scan goes over those positions hs (from
\* the k-th on); i is the end of the last match, acc the output up to i, at
\* the positions the matches start at.
RECURSIVE SubAt(_, _, _, _, _, _, _)
SubAt(pat, s, hs, k, i, acc, at) ==
  IF k > Len(hs)
  THEN [content |-> acc \o SubSeq(s, i, Len(s)), count |-> Cardinality(at),
        at |-> at]
  ELSE IF hs[k] < i THEN SubAt(pat, s, hs, k + 1, i, acc, at)
  ELSE Only({IF m.end > 0
             THEN SubAt(pat, s, hs, k + 1, m.end,
                        acc \o SubSeq(s, i, hs[k] - 1) \o m.repl, at \cup {hs[k]})
             ELSE SubAt(pat, s, hs, k + 1, i, acc, at) :
               m \in {MatchAt(pat, s, hs[k])}})

SubOn(pat, s, hs) == SubAt(pat, s, hs, 1, 1, <<>>, {})

\* (content and the positions are bound as values, once, before the scan)
Sub(pat, s) ==
  Only({Only({SubOn(pat, c, hs) : hs \in {HeadSeq(c, 1, PatHeads(pat))}}) :
          c \in {s}})

Pat(kind, head, prefix) == [kind |-> kind, head |-> head, prefix |-> prefix]

\* A replace_console_ function with its two patterns (second = "" when it has
\* one), as [content, count]: pattern2 runs on what pattern1 left, and count
\* is what the function prints.
Replace(content, head, prefix, second) ==
  Only({IF second = "" THEN [content |-> r1.content, count |-> r1.count]
        ELSE Only({[content |-> r2.content, count |-> r1.count + r2.count] :
                     r2 \in {Sub(Pat(second, head, prefix), r1.content)}}) :
          r1 \in {Sub(Pat("message_only", head, prefix), content)}})

replace_console_log(content, prefix) ==
  Replace(content, "console.log(", prefix, "message_data")

replace_console_error(content, prefix) ==
  Replace(content, "console.error(", prefix, "message_error")

replace_console_warn(content, prefix) ==
  Replace(content, "console.warn(", prefix, "")

\* fix_logger_templates, as [content, count]: it returns count, and its
\* local content holds the rewrite.
fix_logger_templates(content) == Sub([kind |-> "template"], content)

\* fix_logger_variables: the loop over VARIABLE_PATTERNS, from rule k on, as
\* [content, count]: each rule counts its matches and, if it has any,
\* rewrites the content the rules before it left.  hs are the positions of
\* the logger calls of content.
RECURSIVE VariablesFrom(_, _, _, _)
VariablesFrom(content, hs, count, k) ==
  IF k > Len(VARIABLE_PATTERNS)
  THEN [content |-> content, count |-> count]
  ELSE Only({IF r.count > 0
             THEN Only({VariablesFrom(r.content, h, c, k + 1) :
                          h \in {HeadSeq(r.content, 1, LoggerHeads)},
                          c \in {count + r.count}})
             ELSE VariablesFrom(content, hs, count, k + 1) :
               r \in {SubOn([kind |-> "variable", rule |-> VARIABLE_PATTERNS[k]],
                            content, hs)}})

fix_logger_variables(content) ==
  Only({VariablesFrom(c, HeadSeq(c, 1, LoggerHeads), 0, 1) : c \in {content}})

-----------------------------------------------------------------------------
(* The documents the passes are run on *)

\* The statements a document holds, at most.
MaxStmts == 1

Legacy(head, prefix, msg, trailing) ==
  LegacyOpen(head, prefix) \o msg \o <<BT>> \o trailing \o <<")", ";", "\n">>

Structured(head, prefix, quote, msg) ==
  <<head, "{}", ",", " ", quote, "[", prefix, "]", " ">> \o msg
    \o <<quote, ")", ";", "\n">>

Ref(v) == <<"${", v, "}">>

\* A message that holds the references of rule k of VARIABLE_PATTERNS.
RuleMsg(k) ==
  LET rule == VARIABLE_PATTERNS[k]
      v1 == CHOOSE v \in rule.refs[1] : v # "sessionId"
  IN  IF Len(rule.refs) = 1
      THEN <<"Got", " ">> \o Ref(v1) \o <<" ", "ready">>
      ELSE <<"Got", " ">> \o Ref(v1) \o <<" ", "and", " ">>
             \o Ref(CHOOSE v \in rule.refs[2] : v # "sessionId") \o <<" ", "ready">>

Import == <<"import", " ", "x", ";", "\n">>

LegacyStmts(p, q) == {
  Legacy("console.log(", p, <<"Starting">>, <<>>),
  Legacy("console.log(", p, <<"Tenant", " ">> \o Ref("tenantId"), <<>>),
  Legacy("console.log(", p, <<"Value", " ">> \o Ref("foo"), <<>>),
  Legacy("console.log(", p, <<"Starting">>, <<",", " ", "x">>),
  Legacy("console.log(", p, <<"Starting">>, <<",", "x">>),
  Legacy("console.log(", p, <<"Args">>, <<",", " ", "JSON.stringify">>),
  Legacy("console.log(", p, <<"Args">>, <<",", " ", "JSON.stringify", "(", "x", ")">>),
  Legacy("console.log(", p, <<"Starting">>, <<",", " ", "x", ",", " ", "y">>),
  Legacy("console.log(", p, <<"Value", " ">> \o Ref("foo"), <<",", " ", "x", ",", " ", "y">>),
  Legacy("console.log(", p, <<"Value", " ">> \o Ref("foo"), <<",", " ", "x">>),
  Legacy("console.log(", q, <<"Starting">>, <<>>),
  Legacy("console.log(", q, <<"Starting">>, <<",", " ", "x">>),
  Legacy("console.error(", p, <<"Failed">>, <<>>),
  Legacy("console.error(", p, <<"Failed", ":">>, <<",", " ", "error">>),
  Legacy("console.error(", p, <<"Failed">>, <<",", " ", "error">>),
  Legacy("console.error(", p, <<"Failed", ":">>, <<",", " ", "err">>),
  Legacy("console.error(", p, <<"Failed", ":">>, <<",", " ", "error", ",", " ", "x">>),
  Legacy("console.error(", q, <<"Failed", ":">>, <<",", " ", "error">>),
  Legacy("console.warn(", p, <<"Slow">>, <<>>),
  Legacy("console.warn(", p, <<"Slow", " ">> \o Ref("agentName"), <<>>),
  Legacy("console.warn(", p, <<"Slow">>, <<",", " ", "x">>),
  Legacy("console.warn(", q, <<"Slow">>, <<>>)
}

StructuredStmts(p) ==
  {Structured("logger.info(", p, "'", <<"Session", " ">> \o Ref("sessionId")
                                        \o <<" ", "ready">>),
   Structured("logger.info(", p, "'", <<"Done">>),
   Structured("logger.info(", p, "'", <<"Value", " ">> \o Ref("foo")),
   Structured("logger.info(", p, BT, <<"Value", " ">> \o Ref("foo")),
   Structured("logger.info(", p, BT, <<"Tenant", " ">> \o Ref("tenantId")),
   Structured("logger.warn(", p, "'", <<"Task", " ">> \o Ref("params.task")),
   Structured("logger.info(", p, "'", Ref("tenantId") \o <<" ", "and", " ">>
                                        \o Ref("tenantId")),
   Structured("logger.info(", p, "'", Ref("cachedSessionId") \o <<" ", "for", " ">>
                                        \o Ref("agentName")),
   Structured("logger.info(", p, "'", Ref("params.pageName") \o <<" ", "of", " ">>
                                        \o Ref("params.sectionType"))}
  \cup {Structured(CHOOSE h \in VARIABLE_PATTERNS[k].heads : h # "logger.warn(",
                   p, "'", RuleMsg(k)) : k \in 1..Len(VARIABLE_PATTERNS)}

HeaderStmts == {
  Import \o <<ENV_ANCHOR, "\n">>,
  Import \o <<"\n", ENV_ANCHOR, "\n">>,
  Import \o <<" ", "\n", "\n", ENV_ANCHOR, "\n">>,
  Import \o LOGGER_CODE \o <<ENV_ANCHOR, "\n">>,
  <<"\n", ENV_ANCHOR, "\n">>,
  <<SENTINEL, "\n">>
}

Stmts(p, q) == LegacyStmts(p, q) \cup StructuredStmts(p) \cup HeaderStmts

RECURSIVE Docs(_, _, _)
Docs(p, q, k) ==
  IF k = 0 THEN {<<>>}
  ELSE LET shorter == Docs(p, q, k - 1)
       IN  shorter \cup {d \o st : d \in shorter, st \in Stmts(p, q)}

Count_(s, toks) == Cardinality({k \in 1..Len(s) : s[k] \in toks})

\* A document holds the logger block at most once: only add_logger writes it.
Document(d) == Count_(d, {SENTINEL}) <= 1

PrefixChoices == {"Concierge"}
OtherPrefix(p) == "BookingAgent"

-----------------------------------------------------------------------------
(* The pass functions applied to a buffer *)

Heads == ConsoleHeads \cup LoggerHeads

\* The ordinal of the call that starts at position i.
Ordinal(s, i) == Count_(SubSeq(s, 1, i), Heads)

\* The calls (by ordinal) that start at the positions at.
Sites(s, at) == {Ordinal(s, i) : i \in at}

Applied(f, result) ==
  \E r \in {result} :
    /\ text' = r.content
    /\ before' = text
    /\ op' = f
    /\ n' = r.count
    /\ UNCHANGED agent_prefix

ApplyAddLogger ==
  /\ Applied("add_logger", [content |-> add_logger(text), count |-> 0])
  /\ UNCHANGED <<normalized, orchVars>>

ApplyReplaceConsoleLog ==
  /\ Applied("replace_console_log", replace_console_log(text, agent_prefix))
  /\ UNCHANGED <<normalized, orchVars>>

ApplyReplaceConsoleError ==
  /\ Applied("replace_console_error", replace_console_error(text, agent_prefix))
  /\ UNCHANGED <<normalized, orchVars>>

ApplyReplaceConsoleWarn ==
  /\ Applied("replace_console_warn", replace_console_warn(text, agent_prefix))
  /\ UNCHANGED <<normalized, orchVars>>

ApplyFixLoggerTemplates ==
  /\ \E r \in {fix_logger_templates(text)} :
       /\ Applied("fix_logger_templates", r)
       /\ normalized' = normalized \cup Sites(text, r.at)
  /\ UNCHANGED orchVars

ApplyFixLoggerVariables ==
  /\ Applied("fix_logger_variables", fix_logger_variables(text))
  /\ UNCHANGED <<normalized, orchVars>>

\* What a process_agent_file call did: whether it read and wrote the file, what
\* it returned, the text it read (rd), its variable content when it returned
\* (content), the text the pass functions computed (rewritten) and their count.
NoStep == [agent |-> "", script |-> "", pass |-> 0, read |-> FALSE,
           wrote |-> FALSE, ret |-> FALSE, rd |-> <<>>, content |-> <<>>,
           rewritten |-> <<>>, count |-> 0]
NoSummary == [script |-> "", success |-> 0, total |-> 0]

TextInit ==
  /\ agent_prefix \in PrefixChoices
  /\ text \in {d \in Docs(agent_prefix, OtherPrefix(agent_prefix), MaxStmts) :
                 Document(d)}
  /\ before = text
  /\ op = "read"
  /\ n = 0
  /\ normalized = {}
  /\ files = [a \in AgentSet |-> <<>>]
  /\ present = {}
  /\ script = "idle"
  /\ idx = 1
  /\ pass = 1
  /\ success_count = 0
  /\ step = NoStep
  /\ visited = <<>>
  /\ summary = NoSummary
  /\ after1 = files
  /\ existed = {}

TextNext ==
  \/ ApplyAddLogger
  \/ ApplyReplaceConsoleLog
  \/ ApplyReplaceConsoleError
  \/ ApplyReplaceConsoleWarn
  \/ ApplyFixLoggerTemplates
  \/ ApplyFixLoggerVariables

SpecText == TextInit /\ [][TextNext]_vars

-----------------------------------------------------------------------------
(* The three scripts run over the agent files *)

\* The full passes (add_structured_logging, fix_logger_templates,
\* fix_logger_variables, in that order) a run makes, at most.
MaxPasses == 2

Scripts == <<"add_structured_logging", "fix_logger_templates",
             "fix_logger_variables">>

\* The script that is run after the script last.
Following(last) ==
  CASE last = "add_structured_logging" -> "fix_logger_templates"
    [] last = "fix_logger_templates"   -> "fix_logger_variables"
    [] OTHER                           -> "add_structured_logging"

\* The agent files the run starts from, for the prefix p of the agent.
OrchDocs(p) == <<
  Import \o <<"\n", ENV_ANCHOR, "\n">> \o Legacy("console.log(", p, <<"Starting">>, <<>>),
  Legacy("console.log(", p, <<"Tenant", " ">> \o Ref("tenantId"), <<>>)
    \o Legacy("console.error(", p, <<"Failed", ":">>, <<",", " ", "error">>),
  Structured("logger.info(", p, "'", <<"Session", " ">> \o Ref("sessionId")
                                       \o <<" ", "ready">>),
  Structured("logger.info(", p, "'", <<"Done">>),
  Import \o LOGGER_CODE \o <<ENV_ANCHOR, "\n">>
    \o Structured("logger.info(", p, BT, <<"Value", " ">> \o Ref("foo")),
  Legacy("console.warn(", p, <<"Slow">>, <<",", " ", "x">>)
    \o Legacy("console.log(", "Other", <<"Starting">>, <<>>)
>>

\* add_structured_logging.process_agent_file, from the read to the write:
\* add_logger, then the three replace_console_ functions, each on the
\* content the one before returned.
AddPasses(content, prefix) ==
  Only({Only({Only({[content |-> w.content,
                     count |-> l.count + e.count + w.count] :
                      w \in {replace_console_warn(e.content, prefix)}}) :
                e \in {replace_console_error(l.content, prefix)}}) :
          l \in {replace_console_log(add_logger(content), prefix)}})

\* (a variant that writes whatever the count)
TemplatesWritesAlways(count) == TRUE

\* fix_logger_templates.process_agent_file writes the file back if count > 0.
TemplatesWrites(count) == count > 0

\* (a variant that counts every identifier, processed or not)
NextSuccessAlways(count, ok) == count + 1

\* main() of add_structured_logging: success_count += 1 if the call returned True.
NextSuccess(count, ok) == IF ok THEN count + 1 ELSE count

\* file_path.write_text(content)
Write(agent, content) ==
  /\ files' = [files EXCEPT ![agent] = content]
  /\ present' = present \cup {agent}

\* What process_agent_file(agent) of each script does to an existing file:
\* [content, rewritten, count, wrote].
Processed(s, rd, prefix) ==
  CASE s = "add_structured_logging" ->
         LET r == AddPasses(rd, prefix)
         IN  [content |-> r.content, rewritten |-> r.content, count |-> r.count,
              wrote |-> TRUE]
    [] s = "fix_logger_templates" ->
         LET r == fix_logger_templates(rd)
         IN  [content |-> rd, rewritten |-> r.content, count |-> r.count,
              wrote |-> TemplatesWrites(r.count)]
    [] s = "fix_logger_variables" ->
         LET r == fix_logger_variables(rd)
         IN  [content |-> rd, rewritten |-> r.content, count |-> r.count,
              wrote |-> TRUE]

\* main() starts: the loop over AGENTS begins.
StartMain(s) ==
  /\ script = "idle"
  /\ pass <= MaxPasses
  /\ s = Following(summary.script)
  /\ script' = s
  /\ idx' = 1
  /\ success_count' = 0
  /\ visited' = <<>>
  /\ step' = NoStep
  /\ UNCHANGED <<files, present, pass, summary, after1, existed, textVars>>

\* One turn of the loop of main(): process_agent_file(agent) on a path that
\* does not exist prints "File not found" and returns False.
ProcessMissingFile ==
  /\ script # "idle"
  /\ idx <= Len(AGENTS)
  /\ AGENTS[idx] \notin present
  /\ step' = [NoStep EXCEPT !.agent = AGENTS[idx], !.script = script,
                            !.pass = pass]
  /\ success_count' = IF script = "add_structured_logging"
                      THEN NextSuccess(success_count, FALSE) ELSE success_count
  /\ visited' = Append(visited, AGENTS[idx])
  /\ idx' = idx + 1
  /\ UNCHANGED <<files, present, script, pass, summary, after1, existed, textVars>>

\* One turn of the loop of main(): process_agent_file(agent) on an existing
\* file reads it, runs the passes of the script, writes and returns True.
ProcessAgentFile ==
  /\ script # "idle"
  /\ idx <= Len(AGENTS)
  /\ AGENTS[idx] \in present
  /\ \E agent \in {AGENTS[idx]} :
     \E r \in {Processed(script, files[agent], agent_prefixes[agent])} :
         /\ step' = [agent |-> agent, script |-> script, pass |-> pass,
                     read |-> TRUE, wrote |-> r.wrote, ret |-> TRUE,
                     rd |-> files[agent], content |-> r.content,
                     rewritten |-> r.rewritten, count |-> r.count]
         /\ IF r.wrote THEN Write(agent, r.content)
            ELSE UNCHANGED <<files, present>>
  /\ success_count' = IF script = "add_structured_logging"
                      THEN NextSuccess(success_count, TRUE) ELSE success_count
  /\ visited' = Append(visited, AGENTS[idx])
  /\ idx' = idx + 1
  /\ UNCHANGED <<script, pass, summary, after1, existed, textVars>>

\* The loop of main() is over: the final summary is printed.
FinishMain ==
  /\ script # "idle"
  /\ idx > Len(AGENTS)
  /\ summary' = [script |-> script, success |-> success_count,
                 total |-> Len(AGENTS)]
  /\ script' = "idle"
  /\ pass' = IF script = "fix_logger_variables" THEN pass + 1 ELSE pass
  /\ after1' = IF script = "fix_logger_variables" /\ pass = 1 THEN files ELSE after1
  /\ UNCHANGED <<files, present, idx, success_count, step, visited, existed,
                 textVars>>

Init ==
  /\ existed \in SUBSET AgentSet
  /\ present = existed
  /\ \E k \in DOMAIN OrchDocs("") :
       files = [a \in AgentSet |->
                  IF a \in existed THEN OrchDocs(agent_prefixes[a])[k] ELSE <<>>]
  /\ script = "idle"
  /\ idx = 1
  /\ pass = 1
  /\ success_count = 0
  /\ step = NoStep
  /\ visited = <<>>
  /\ summary = NoSummary
  /\ after1 = files
  /\ text = <<>>
  /\ before = <<>>
  /\ op = "read"
  /\ n = 0
  /\ agent_prefix = ""
  /\ normalized = {}

Next ==
  \/ \E s \in {Scripts[k] : k \in 1..Len(Scripts)} : StartMain(s)
  \/ ProcessMissingFile
  \/ ProcessAgentFile
  \/ FinishMain

Spec == Init /\ [][Next]_vars

\* The scripts are sequential programs: a step that can be taken is taken.
FairSpec == Spec /\ WF_vars(Next)

-----------------------------------------------------------------------------
(* Claims about the scripts run over the agent files (Spec, FairSpec) *)

Prefix(agent) == agent_prefixes[agent]

\* C1: the full pass is idempotent: in the second full pass over the files
\* the first pass left, every processed file keeps the text the first pass
\* gave it and every script reports zero substitutions.
C1_SecondPassIsNoop ==
  (step.pass = 2 /\ step.read) =>
    /\ step.count = 0
    /\ files[step.agent] = after1[step.agent]

\* C4: pass chaining and persistence: after process_agent_file has processed
\* an existing file, the text on disk is the text the passes of the script
\* compute from the text that was read (template-quoted after the Template
\* Normalizer, with the Extractor rewrites after the Variable Extractor).
C4_PersistedIsRewritten ==
  step.read => files[step.agent] = step.rewritten

\* C7 as stated: an existing file is written back if and only if the text
\* resulting from the passes differs from the text that was read.
C7_WriteIffChanged ==
  step.read => (step.wrote <=> step.content # step.rd)

\* C7 as amended: add_structured_logging and fix_logger_variables write every
\* existing file back, changed or not; fix_logger_templates writes it back if
\* and only if its count is greater than zero; what is written is the content
\* variable of process_agent_file; a missing file is neither read nor written.
C7_WritePolicy ==
  step.agent # "" =>
    /\ step.read <=> step.agent \in existed
    /\ step.wrote <=>
         /\ step.read
         /\ \/ step.script \in {"add_structured_logging", "fix_logger_variables"}
            \/ step.count > 0
    /\ step.wrote => files[step.agent] = step.content
    /\ (step.read /\ ~step.wrote) => files[step.agent] = step.rd
    /\ ~step.read => files[step.agent] = <<>>

\* A file add_structured_logging wrote back although no pass changed it.
C7_Witness ==
  /\ step.script = "add_structured_logging"
  /\ step.wrote
  /\ step.content = step.rd
  /\ files[step.agent] = step.rd

C9_Safe ==
  /\ visited = SubSeq(AGENTS, 1, Len(visited))
  /\ script # "idle" => Len(visited) = idx - 1
  /\ (script = "idle" /\ summary.script # "") => visited = AGENTS
  /\ present = existed
  /\ \A a \in AgentSet \ existed : files[a] = <<>>
  /\ step.agent # "" =>
       /\ step.ret <=> step.agent \in existed
       /\ step.agent \notin existed => (~step.read /\ ~step.wrote)
       /\ (step.agent \in existed /\ step.script = "add_structured_logging") =>
            /\ step.read
            /\ step.wrote
            /\ files[step.agent] = AddPasses(step.rd, Prefix(step.agent)).content
  /\ summary.script = "add_structured_logging" =>
       /\ summary.success = Cardinality(existed)
       /\ summary.total = Len(AGENTS)

\* C9: missing-file isolation: main() visits every identifier in listed
\* order; an absent file is reported as failed and is not read, created or
\* written; every present file is fully processed; the run always reaches the
\* final summary, whose success count is the number of files that exist, out
\* of the number of identifiers.
C9_MissingFileIsolation ==
  /\ []C9_Safe
  /\ (script = "add_structured_logging")
       ~> (script = "idle" /\ summary.script = "add_structured_logging")

\* A finished run of add_structured_logging with some files missing, some not.
C9_Witness ==
  /\ script = "idle"
  /\ summary.script = "add_structured_logging"
  /\ existed # {}
  /\ existed # AgentSet
  /\ summary.success = Cardinality(existed)
  /\ summary.success < summary.total
  /\ visited = AGENTS

-----------------------------------------------------------------------------
(* Claims about the pass functions (SpecText) *)

\* The k-th call of s: from its callee token to the end of its line.
CallToks(s, k) ==
  LET i == HeadSeq(s, 1, Heads)[k]
  IN  SubSeq(s, i, Until(s, i, {"\n"}) - 1)

NumCalls(s) == Count_(s, Heads)

\* The calls of before and of text, by ordinal (no pass adds or removes one).
CallsBefore == [k \in 1..NumCalls(before) |-> CallToks(before, k)]
CallsAfter == [k \in 1..NumCalls(text) |-> CallToks(text, k)]

\* A call c read as  callee  arguments  quote  message  quote  rest.
QuoteAt(c) == Until(c, 2, {"'", BT})
MsgQuote(c) == IF QuoteAt(c) <= Len(c) THEN c[QuoteAt(c)] ELSE ""
MsgEnd(c) == Until(c, QuoteAt(c) + 1, {MsgQuote(c)})
Message(c) == SubSeq(c, QuoteAt(c) + 1, MsgEnd(c) - 1)
FirstArgs(c) == SubSeq(c, 2, QuoteAt(c) - 1)
Trailing(c) == SubSeq(c, MsgEnd(c) + 1, Len(c))
Closed(c) == Trailing(c) = <<")", ";">>

\* The field names of the object literals before the message.
InObject(d, j) ==
  \E a \in 1..(j - 1) : d[a] = "{ " /\ \A b \in (a + 1)..(j - 1) : d[b] # " }"
FieldNames(c) ==
  LET d == FirstArgs(c)
  IN  {d[j] : j \in {j \in 2..Len(d) :
                       /\ InObject(d, j)
                       /\ \/ d[j - 1] = "{ "
                          \/ j > 2 /\ d[j - 1] = " " /\ d[j - 2] = ","}}

\* The bracketed tags of the message, the prefix tag that opens it excluded.
MessageTags(c) ==
  LET m == Message(c)
  IN  {m[j] : j \in {j \in 3..(Len(m) - 1) : m[j - 1] = "[" /\ m[j + 1] = "]"}}

\* The positions of the interpolation markers of a message.
Markers(m) == {j \in 1..Len(m) : m[j] = "${"}

\* A structured call with the empty data object, a single-quoted message.
Extractable(c) ==
  /\ c[1] \in LoggerHeads
  /\ FirstArgs(c) = <<"{}", ",", " ">>
  /\ MsgQuote(c) = "'"
  /\ Closed(c)

Rules == 1..Len(VARIABLE_PATTERNS)

\* An import statement is followed, after whitespace that ends a line and an
\* empty line, by the ENVIRONMENT CONFIGURATION banner.
AnchorIn(s) ==
  \E i \in 1..Len(s) : \E q \in (i + 1)..Len(s) : \E e \in (q + 2)..Len(s) :
    /\ s[i] = "import"
    /\ s[q] = ";"
    /\ s[e] = ENV_ANCHOR
    /\ s[e - 1] = "\n"
    /\ \A j \in (q + 1)..(e - 1) : s[j] \in WS

\* C2: the logger block occurs at most once however often and in whatever
\* order the passes run, and add_logger leaves the text unchanged when the
\* sentinel is already there or when the text has no anchor; otherwise it
\* inserts the block, once.
C2_InjectorExactlyOnce ==
  /\ Count_(text, {SENTINEL}) <= 1
  /\ op = "add_logger" =>
       /\ (Has(before, SENTINEL) \/ ~AnchorIn(before)) => text = before
       /\ (~Has(before, SENTINEL) /\ AnchorIn(before)) =>
            /\ Count_(text, {SENTINEL}) = 1
            /\ Len(text) = Len(before) + Len(LOGGER_CODE)

\* add_logger run on a text that holds the block and the anchor.
C2_Witness ==
  /\ op = "add_logger"
  /\ Has(before, SENTINEL)
  /\ AnchorIn(before)
  /\ text = before

\* C3 as stated: after the last pass of a run, every structured call has
\* exactly the data fields its message has bracketed tags for.
C3_FieldsEqualTags ==
  op = "fix_logger_variables" =>
    \A k \in DOMAIN CallsAfter :
      CallsAfter[k][1] \in LoggerHeads =>
        FieldNames(CallsAfter[k]) = MessageTags(CallsAfter[k])

\* C3 as amended: the field names a Variable Extractor rewrite adds to a call
\* are exactly the bracketed tags it adds to the message of that call.
C3_ExtractorPairsFieldsAndTags ==
  op = "fix_logger_variables" =>
    \A k \in DOMAIN CallsAfter :
      FieldNames(CallsAfter[k]) \ FieldNames(CallsBefore[k])
        = MessageTags(CallsAfter[k]) \ MessageTags(CallsBefore[k])

\* A compound rule has added two fields and their two tags to a call.
C3_Witness ==
  /\ op = "fix_logger_variables"
  /\ \E k \in DOMAIN CallsAfter :
       /\ Cardinality(FieldNames(CallsAfter[k]) \ FieldNames(CallsBefore[k])) = 2
       /\ Cardinality(MessageTags(CallsAfter[k]) \ MessageTags(CallsBefore[k])) = 2

\* The single-field rules that accept callee head and reference v.
SingleRules(head, v) ==
  {k \in Rules : /\ Len(VARIABLE_PATTERNS[k].refs) = 1
                 /\ head \in VARIABLE_PATTERNS[k].heads
                 /\ v \in VARIABLE_PATTERNS[k].refs[1]}

\* C5: a single-field rule applied to callee({}, 'M'), M holding exactly one
\* interpolation, of that rule, gives a call whose first argument is an object
\* with exactly one field, of the rule's name, and whose message is M with the
\* interpolation replaced by [name]; callee and the rest of M are unchanged.
C5_SingleFieldExtraction ==
  op = "fix_logger_variables" =>
    \A k \in DOMAIN CallsBefore :
      LET b == CallsBefore[k]
          t == CallsAfter[k]
          m == Message(b)
          p == CHOOSE j \in Markers(m) : TRUE
          name == VARIABLE_PATTERNS[CHOOSE r \in SingleRules(b[1], m[p + 1]) : TRUE]
                    .fields[1].name
      IN  (/\ Extractable(b)
           /\ Cardinality(Markers(m)) = 1
           /\ SingleRules(b[1], m[p + 1]) # {})
          => /\ t[1] = b[1]
             /\ Count_(FirstArgs(t), {"{}", "{ "}) = 1
             /\ FieldNames(t) = {name}
             /\ Message(t) = SubSeq(m, 1, p - 1) \o <<"[", name, "]">>
                               \o SubSeq(m, p + 3, Len(m))
             /\ Closed(t)

\* The two-field rules that accept callee head.
PairRules(head) ==
  {k \in Rules : /\ Len(VARIABLE_PATTERNS[k].refs) = 2
                 /\ head \in VARIABLE_PATTERNS[k].heads}

\* Message m holds the two references of rule k, in the rule's order.
HoldsPair(m, k) ==
  \E i \in Markers(m) : \E j \in Markers(m) :
    /\ i < j
    /\ m[i + 1] \in VARIABLE_PATTERNS[k].refs[1]
    /\ m[j + 1] \in VARIABLE_PATTERNS[k].refs[2]

\* C6: when the message of callee({}, 'M') holds both references of a
\* two-field rule, the call comes out with both fields of that rule in its
\* data and both of its tags in its message.
C6_CompoundRuleWins ==
  op = "fix_logger_variables" =>
    \A k \in DOMAIN CallsBefore :
      \A r \in PairRules(CallsBefore[k][1]) :
        (Extractable(CallsBefore[k]) /\ HoldsPair(Message(CallsBefore[k]), r))
          => /\ {VARIABLE_PATTERNS[r].fields[x].name : x \in 1..2}
                  \subseteq FieldNames(CallsAfter[k])
             /\ {VARIABLE_PATTERNS[r].tags[x] : x \in 1..2}
                  \subseteq MessageTags(CallsAfter[k])

\* The callee a replace_console_ function works on.
OpHead ==
  CASE op = "replace_console_log"   -> "console.log("
    [] op = "replace_console_error" -> "console.error("
    [] op = "replace_console_warn"  -> "console.warn("
    [] OTHER                        -> ""

\* A legacy call of the function just run that carries the agent's prefix tag.
Addressed(c) ==
  /\ c[1] = OpHead
  /\ Lit(c, 1, LegacyOpen(OpHead, agent_prefix))
  /\ Len(Trailing(c)) >= 2
  /\ SubSeq(Trailing(c), Len(Trailing(c)) - 1, Len(Trailing(c))) = <<")", ";">>

\* The text between the comma after the message and the closing ");".
HasArgs(c) == Trailing(c)[1] = ","
Args(c) == SubSeq(Trailing(c), 2, Len(Trailing(c)) - 2)
SeveralArgs(c) == HasArgs(c) /\ \E j \in DOMAIN Args(c) : Args(c)[j] = ","
NestedParens(c) ==
  HasArgs(c) /\ \E j \in DOMAIN Args(c) : Args(c)[j] \in {"(", ")"}

\* The call t is a structured call that replaces the whole legacy call b.
ReplacedBy(b, t) ==
  /\ t[1] = LoggerOf(b[1])
  /\ MsgQuote(t) = "'"
  /\ Closed(t)
  /\ Count_(t, {BT} \cup ConsoleHeads) = 0
  /\ HasArgs(b) =>
       \E data \in {<<>>, <<"data", ": ">>, <<"error", ": ">>} :
         \E expr \in {Strip(Args(b)), <<ERROR_EXPR>>} :
           FirstArgs(t) = <<"{ ">> \o data \o expr \o <<" }", ",", " ">>
  /\ ~HasArgs(b) => FirstArgs(t) = <<"{}", ",", " ">>

Recognized(c) ==
  \/ ~HasArgs(c)
  \/ /\ OpHead = "console.log("
     /\ HasArgs(c)
     /\ Args(c) # <<>>
     /\ \A j \in DOMAIN Args(c) : Args(c)[j] \notin RParenToks
  \/ /\ OpHead = "console.error("
     /\ HasArgs(c)
     /\ SubSeq(Args(c), While(Args(c), 1, WS), Len(Args(c))) = <<"error">>

SingleQuotedTemplate(c) ==
  /\ c[1] \in LoggerHeads
  /\ MsgQuote(c) = "'"
  /\ Closed(c)
  /\ Markers(Message(c)) # {}

\* The Variable Extractor rewrites only single-quoted messages, and never a
\* call the Template Normalizer has rewritten.
ExtractorSkipsNormalized ==
  op = "fix_logger_variables" =>
    \A k \in DOMAIN CallsBefore :
      /\ CallsAfter[k] # CallsBefore[k] => MsgQuote(CallsBefore[k]) = "'"
      /\ k \in normalized => CallsAfter[k] = CallsBefore[k]

\* C10: the Template Normalizer puts backticks around every single-quoted
\* message that holds an interpolation, so no such message is left for the
\* Variable Extractor, which skips every normalized call.
C10_EveryTemplateNormalized ==
  /\ ExtractorSkipsNormalized
  /\ op = "fix_logger_templates" =>
       \A k \in DOMAIN CallsBefore :
         SingleQuotedTemplate(CallsBefore[k]) =>
           /\ MsgQuote(CallsAfter[k]) = BT
           /\ k \in normalized

====
